---- MODULE Spec2Model ----
(***************************************************************************)
(* Model of src/src/components/Map.tsx: the panorama walkthrough viewer.   *)
(*                                                                         *)
(* Units.  Coordinates are written in tenths (1.5 is 15), angles in        *)
(* hundredths of PI (Math.PI * -0.75 is -75), opacities and scales in      *)
(* tenths (0.7 is 7, 1.1 is 11).  A value that may be absent (an optional  *)
(* field, the result of Array.find, an optional chain) is a sequence of    *)
(* length at most one: << >> is undefined, <<v>> is v.  A scene id that    *)
(* may be null is NULL or a positive integer.                              *)
(***************************************************************************)
EXTENDS Integers, Sequences, FiniteSets, TLC

NULL == -1

\* Bounds of the model.
MaxSceneId == 4
MaxYaw == 2

Dirs == {"prev", "next"}

(***************************************************************************)
(* The compiled-in scene registry.                                         *)
(***************************************************************************)
scene1 ==
  [id |-> 1, name |-> "Entrance",
   url |-> "/assets/360%20images/1-Entrance.jpeg",
   position |-> <<0, 0, 0>>, prev |-> NULL, next |-> 2,
   prevFootstep |-> << >>,
   nextFootstep |-> << [position |-> <<30, -40, 30>>, rotation |-> -75] >>]

scene2 ==
  [id |-> 2, name |-> "Window Table",
   url |-> "/assets/360%20images/2-Window%20Table.jpeg",
   position |-> <<50, 0, 0>>, prev |-> 1, next |-> 3,
   prevFootstep |-> << [position |-> <<-50, -40, 20>>, rotation |-> 50] >>,
   nextFootstep |-> << [position |-> <<50, -40, 0>>, rotation |-> -50] >>]

scene3 ==
  [id |-> 3, name |-> "Window Table 2",
   url |-> "/assets/360%20images/3-Window%20Table%202.jpeg",
   position |-> <<100, 0, 0>>, prev |-> 2, next |-> 4,
   prevFootstep |-> << [position |-> <<15, -40, -50>>, rotation |-> 200] >>,
   nextFootstep |-> << [position |-> <<0, -40, 50>>, rotation |-> 100] >>]

scene4 ==
  [id |-> 4, name |-> "Corner",
   url |-> "/assets/360%20images/4-Corner.jpeg",
   position |-> <<50, 0, -50>>, prev |-> 3, next |-> NULL,
   prevFootstep |-> << [position |-> <<-30, -40, 80>>, rotation |-> 70] >>,
   nextFootstep |-> << >>]

\* A registry whose third scene points back at the wrong scene.
panoramaImages_badBackLink ==
  << scene1, scene2, [scene3 EXCEPT !.prev = 1], scene4 >>

panoramaImages == << scene1, scene2, scene3, scene4 >>

FootstepPng == "/assets/footstep.png"

Resources == {panoramaImages[i].url : i \in 1..Len(panoramaImages)} \cup {FootstepPng}

\* panoramaImages.find((img) => img.id === id): the first match, or undefined.
find(id) ==
  LET hits == {i \in 1..Len(panoramaImages) : panoramaImages[i].id = id}
  IN  IF hits = {} THEN << >>
      ELSE << panoramaImages[CHOOSE i \in hits : \A j \in hits : i <= j] >>

(***************************************************************************)
(* JavaScript's a || b.  A number is falsy when it is null, undefined or   *)
(* 0; an array is always truthy, so only undefined falls through.          *)
(***************************************************************************)
OrId(a, b) == IF a = NULL \/ a = 0 THEN b ELSE a

OrNumber(a, b) == IF a = << >> \/ a = <<0>> THEN b ELSE a[1]

OrArray(a, b) == IF a = << >> THEN b ELSE a[1]

\* cp?.field for an optional scene cp, with the field's own absent value.
PrevFootstepOf(cp) == IF cp = << >> THEN << >> ELSE cp[1].prevFootstep
NextFootstepOf(cp) == IF cp = << >> THEN << >> ELSE cp[1].nextFootstep
PositionOf(fs) == IF fs = << >> THEN << >> ELSE << fs[1].position >>
RotationOf(fs) == IF fs = << >> THEN << >> ELSE << fs[1].rotation >>

(***************************************************************************)
(* The hotspot placement resolver.                                         *)
(***************************************************************************)
PrevDefaultPosition == <<-30, -40, 50>>
PrevDefaultRotation == 75
NextDefaultPosition == <<30, -40, 50>>
NextDefaultRotation == 25

getPrevFootstepData(cp) ==
  [position  |-> OrArray(PositionOf(PrevFootstepOf(cp)), PrevDefaultPosition),
   rotation  |-> OrNumber(RotationOf(PrevFootstepOf(cp)), PrevDefaultRotation),
   targetId  |-> OrId(IF cp = << >> THEN NULL ELSE cp[1].prev, NULL),
   direction |-> "prev"]

\* The Next resolver written by copying the Previous one, its link not renamed.
getNextFootstepData_copiedLink(cp) ==
  [position  |-> OrArray(PositionOf(NextFootstepOf(cp)), NextDefaultPosition),
   rotation  |-> OrNumber(RotationOf(NextFootstepOf(cp)), NextDefaultRotation),
   targetId  |-> OrId(IF cp = << >> THEN NULL ELSE cp[1].prev, NULL),
   direction |-> "next"]

getNextFootstepData(cp) ==
  [position  |-> OrArray(PositionOf(NextFootstepOf(cp)), NextDefaultPosition),
   rotation  |-> OrNumber(RotationOf(NextFootstepOf(cp)), NextDefaultRotation),
   targetId  |-> OrId(IF cp = << >> THEN NULL ELSE cp[1].next, NULL),
   direction |-> "next"]

(***************************************************************************)
(* The Footstep component.                                                 *)
(***************************************************************************)
isDisabled(targetId) == targetId = NULL

\* handleClick: what one click does, as the propagation flag and the list of
\* onClick(targetId) calls it makes.
\* handleClick without e.stopPropagation().
handleClick_noStop(targetId) ==
  [stopped |-> FALSE,
   navs    |-> IF targetId # NULL THEN <<targetId>> ELSE << >>]

handleClick(targetId) ==
  [stopped |-> TRUE,
   navs    |-> IF targetId # NULL THEN <<targetId>> ELSE << >>]

\* The mesh's onClick prop: undefined (no handler runs) when disabled.
\* A mesh that calls onClick(targetId) whether or not the hotspot is disabled.
meshOnClick_unguarded(targetId) == [stopped |-> TRUE, navs |-> <<targetId>>]

meshOnClick(targetId) ==
  IF isDisabled(targetId) THEN [stopped |-> FALSE, navs |-> << >>]
  ELSE handleClick(targetId)

\* onPointerOver={() => !isDisabled && setHovered(true)}
onPointerOver(targetId, hov) == IF ~isDisabled(targetId) THEN TRUE ELSE hov

\* onPointerOut={() => setHovered(false)}
onPointerOut(hov) == FALSE

\* setScale((prev) => (prev === 1 ? 1.1 : 1))
toggleScale(sc) == IF sc = 10 THEN 11 ELSE 10

\* The label's text: the direction prefix and the target scene's name.
labelOf(data) ==
  [prefix |-> IF data.direction = "next" THEN "Next: " ELSE "Previous: ",
   name   |-> IF find(data.targetId) = << >> THEN << >>
              ELSE << find(data.targetId)[1].name >>]

\* What one render of a Footstep puts on screen.
FootstepView(data, hov, sc) ==
  [visible  |-> TRUE,
   disabled |-> isDisabled(data.targetId),
   scale    |-> sc,
   opacity  |-> IF isDisabled(data.targetId) THEN 3 ELSE IF hov THEN 10 ELSE 7,
   arrow    |-> ~isDisabled(data.targetId),
   label    |-> IF hov /\ data.targetId # NULL THEN << labelOf(data) >> ELSE << >>]

HiddenView ==
  [visible |-> FALSE, disabled |-> TRUE, scale |-> 10, opacity |-> 0,
   arrow |-> FALSE, label |-> << >>]

\* The dependency array of the pulse effect: [hovered, isDisabled].
FootstepDeps(data, hov) == << hov, isDisabled(data.targetId) >>

\* The pulse effect's body, on the interval flag and the scale state.
FootstepEffect(hov, dis, sc) ==
  IF hov /\ ~dis THEN [interval |-> TRUE, scale |-> sc]
  ELSE [interval |-> FALSE, scale |-> 10]

(***************************************************************************)
(* The PanoramaSphere component and the Suspense boundary around it.       *)
(***************************************************************************)
LOADING == "<LoadingScreen />"
CRASHED == "TypeError"
UNMOUNTED == ""

\* What the boundary shows while a load is pending: its fallback.
SuspendedDisplay_keepPrevious(previous) == previous

SuspendedDisplay(previous) == LOADING

\* Whether the camera effect runs on a commit: on mount and when the
\* dependency imageUrl differs from the previous commit's.
SphereEffectDue_mountOnly(oldUrl, imageUrl) == oldUrl = UNMOUNTED

SphereEffectDue(oldUrl, imageUrl) == oldUrl # imageUrl

\* The camera effect's body.
SphereEffect(ref, imageUrl, rot) ==
  IF ref # imageUrl THEN [ref |-> imageUrl, rotation |-> 0]
  ELSE [ref |-> ref, rotation |-> rot]

\* useLoader / useTexture: a resource not loaded yet is requested.
Request(c, u) == IF c[u] = "none" THEN [c EXCEPT ![u] = "pending"] ELSE c

(***************************************************************************)
(* The Map component.                                                      *)
(***************************************************************************)
\* A handler that steps past the scene it was given.
handleNavigate_offByOne(imageId) == imageId + 1

handleNavigate(imageId) == imageId

\* The jump button's onClick={() => setCurrentImageId(img.id)}.
\* A jump button wired to the scene's index in the list instead of its id.
jumpTo_index(img) == img.id - 1

jumpTo(img) == img.id

ApplyNavs(id, navs) ==
  IF navs = << >> THEN id ELSE handleNavigate(navs[Len(navs)])

VARIABLES
  currentImageId,   \* Map's useState
  cache,            \* the loaders' suspend cache: resource -> none|pending|ready
  shown,            \* the sphere's texture (a url), LOADING or CRASHED
  currentPanorama,  \* the scene PanoramaSphere found on its last render
  footstepData,     \* the props of the two Footsteps as last resolved
  view,             \* what each Footstep has on screen
  hovered, scale, interval,   \* each Footstep's state and its timer
  deps,             \* the dependency values of the last commit
  pendingEffects,   \* passive effects committed and not run yet
  lastPositionRef, cameraRotation,
  pointerOn,        \* the hotspot under the pointer, or "none"
  lastEvent,        \* the most recent event: what it dispatched, the scene id
                    \* before it and, for a flush, the camera before it
  lastNav,          \* the id of the most recent navigation dispatched
  trail,            \* a Next click followed by a Previous click
  lastImageUrl,     \* the image of the last commit
  resetDue          \* the last commit changed the image

vars == << currentImageId, cache, shown, currentPanorama, footstepData, view,
           hovered, scale, interval, deps, pendingEffects, lastPositionRef,
           cameraRotation, pointerOn, lastEvent, lastNav, trail,
           lastImageUrl, resetDue >>

Unresolved == [prev |-> << >>, next |-> << >>]

NoTrail == [from |-> NULL, stage |-> 0]

Event(kind, dir, target, r) ==
  [kind |-> kind, dir |-> dir, target |-> target, navs |-> r.navs,
   stopped |-> r.stopped, before |-> currentImageId, due |-> FALSE, yaw |-> 0]

Quiet(kind) == Event(kind, "", NULL, [stopped |-> FALSE, navs |-> << >>])

InitView ==
  /\ currentImageId = 1
  /\ cache = [u \in Resources |->
                IF u = panoramaImages[1].url THEN "pending" ELSE "none"]
  /\ shown = LOADING
  /\ footstepData = Unresolved
  /\ view = [d \in Dirs |-> HiddenView]
  /\ hovered = [d \in Dirs |-> FALSE]
  /\ scale = [d \in Dirs |-> 10]
  /\ interval = [d \in Dirs |-> FALSE]
  /\ deps = [prev |-> << >>, next |-> << >>, sphere |-> UNMOUNTED]
  /\ pendingEffects = {}
  /\ lastPositionRef = UNMOUNTED
  /\ cameraRotation = 0
  /\ pointerOn = "none"
  /\ lastEvent = [kind |-> "init", dir |-> "", target |-> NULL, navs |-> << >>,
                  stopped |-> FALSE, before |-> 1, due |-> FALSE, yaw |-> 0]
  /\ lastNav = NULL
  /\ trail = NoTrail
  /\ lastImageUrl = UNMOUNTED
  /\ resetDue = FALSE

Init == InitView /\ currentPanorama = << >>

(***************************************************************************)
(* One render pass of Map and of the Canvas content, for state id, hov, sc *)
(* and loader cache c.  The pass ends in the TypeError of currentImage!.url *)
(* when the id is not in the registry, in the Suspense fallback when the   *)
(* scene's image or the footstep icon is not loaded, and in a commit       *)
(* otherwise.  A suspended pass leaves the committed tree as it was.       *)
(***************************************************************************)
Render(id, c, hov, sc) ==
  LET cp == find(id) IN
  IF cp = << >> THEN
    /\ shown' = CRASHED
    /\ view' = [d \in Dirs |-> HiddenView]
    /\ cache' = c
    /\ UNCHANGED << currentPanorama, footstepData, deps, pendingEffects,
                    lastImageUrl, resetDue >>
  ELSE IF c[cp[1].url] # "ready" THEN
    /\ shown' = SuspendedDisplay(shown)
    /\ view' = [d \in Dirs |-> HiddenView]
    /\ cache' = Request(c, cp[1].url)
    /\ UNCHANGED << currentPanorama, footstepData, deps, pendingEffects,
                    lastImageUrl, resetDue >>
  ELSE IF c[FootstepPng] # "ready" THEN
    /\ shown' = SuspendedDisplay(shown)
    /\ view' = [d \in Dirs |-> HiddenView]
    /\ cache' = Request(c, FootstepPng)
    /\ UNCHANGED << currentPanorama, footstepData, deps, pendingEffects,
                    lastImageUrl, resetDue >>
  ELSE
    LET data == [prev |-> getPrevFootstepData(cp), next |-> getNextFootstepData(cp)]
        nd   == [prev   |-> FootstepDeps(data.prev, hov["prev"]),
                 next   |-> FootstepDeps(data.next, hov["next"]),
                 sphere |-> cp[1].url]
    IN  /\ shown' = cp[1].url
        /\ currentPanorama' = cp
        /\ footstepData' = [prev |-> << data.prev >>, next |-> << data.next >>]
        /\ view' = [d \in Dirs |-> FootstepView(data[d], hov[d], sc[d])]
        /\ deps' = nd
        /\ pendingEffects' =
             {d \in Dirs : nd[d] # deps[d]}
             \cup (IF SphereEffectDue(deps.sphere, cp[1].url) THEN {"sphere"} ELSE {})
        /\ lastImageUrl' = cp[1].url
        /\ resetDue' = (cp[1].url # lastImageUrl)
        /\ cache' = c

Ready == pendingEffects = {} /\ shown # CRASHED
Visible == shown \notin {LOADING, CRASHED}

\* A navigation event's bookkeeping.
Navigated(navs) ==
  lastNav' = IF navs = << >> THEN lastNav ELSE navs[Len(navs)]

(***************************************************************************)
(* Events.                                                                 *)
(***************************************************************************)
\* A click on the jump button of scene img.
JumpTo(i) ==
  /\ Ready
  /\ currentImageId' = jumpTo(panoramaImages[i])
  /\ lastEvent' = Event("jump", "", panoramaImages[i].id,
                        [stopped |-> FALSE, navs |-> << panoramaImages[i].id >>])
  /\ Navigated(<< panoramaImages[i].id >>)
  /\ trail' = NoTrail
  /\ Render(currentImageId', cache, hovered, scale)
  /\ UNCHANGED << hovered, scale, interval, lastPositionRef, cameraRotation, pointerOn >>

\* A click on the hotspot of direction d.
ClickFootstep(d) ==
  /\ Ready /\ Visible
  /\ LET target == footstepData[d][1].targetId
         r == meshOnClick(target)
     IN  /\ currentImageId' = ApplyNavs(currentImageId, r.navs)
         /\ lastEvent' = Event("click", d, target, r)
         /\ Navigated(r.navs)
         /\ trail' = IF r.navs = << >> THEN trail
                     ELSE IF d = "next" THEN [from |-> currentImageId, stage |-> 1]
                     ELSE IF trail.stage = 1 THEN [trail EXCEPT !.stage = 2]
                     ELSE NoTrail
  /\ Render(currentImageId', cache, hovered, scale)
  /\ UNCHANGED << hovered, scale, interval, lastPositionRef, cameraRotation, pointerOn >>

\* The pointer enters the hotspot of direction d.
PointerOver(d) ==
  /\ Ready /\ Visible
  /\ pointerOn = "none"
  /\ pointerOn' = d
  /\ hovered' = [hovered EXCEPT ![d] = onPointerOver(footstepData[d][1].targetId, hovered[d])]
  /\ lastEvent' = Quiet("idle")
  /\ Render(currentImageId, cache, hovered', scale)
  /\ UNCHANGED << currentImageId, scale, interval, lastPositionRef, cameraRotation,
                  lastNav, trail >>

\* The pointer leaves the hotspot of direction d.
PointerOut(d) ==
  /\ Ready
  /\ pointerOn = d
  /\ pointerOn' = "none"
  /\ hovered' = [hovered EXCEPT ![d] = onPointerOut(hovered[d])]
  /\ lastEvent' = Quiet("idle")
  /\ Render(currentImageId, cache, hovered', scale)
  /\ UNCHANGED << currentImageId, scale, interval, lastPositionRef, cameraRotation,
                  lastNav, trail >>

\* The 500 ms interval of the hotspot of direction d fires.
Tick(d) ==
  /\ Ready
  /\ interval[d]
  /\ scale' = [scale EXCEPT ![d] = toggleScale(scale[d])]
  /\ lastEvent' = Quiet("idle")
  /\ Render(currentImageId, cache, hovered, scale')
  /\ UNCHANGED << currentImageId, hovered, interval, lastPositionRef, cameraRotation,
                  pointerOn, lastNav, trail >>

\* The load of resource u completes; the suspended render is retried.
LoadComplete(u) ==
  /\ Ready
  /\ cache[u] = "pending"
  /\ lastEvent' = Quiet("load")
  /\ Render(currentImageId, [cache EXCEPT ![u] = "ready"], hovered, scale)
  /\ UNCHANGED << currentImageId, hovered, scale, interval, lastPositionRef,
                  cameraRotation, pointerOn, lastNav, trail >>

(***************************************************************************)
(* The passive effects of the last commit run: each Footstep's pulse       *)
(* effect whose dependencies changed (cleanup, then body), and the camera  *)
(* effect.  A setScale(1) that changes the scale re-renders the Footstep.  *)
(***************************************************************************)
FlushPassiveEffects ==
  /\ pendingEffects # {}
  /\ shown # CRASHED
  /\ LET fx == [d \in Dirs |->
                  IF d \in pendingEffects
                  THEN FootstepEffect(deps[d][1], deps[d][2], scale[d])
                  ELSE [interval |-> interval[d], scale |-> scale[d]]]
         cam == IF "sphere" \in pendingEffects
                THEN SphereEffect(lastPositionRef, deps.sphere, cameraRotation)
                ELSE [ref |-> lastPositionRef, rotation |-> cameraRotation]
     IN  /\ interval' = [d \in Dirs |-> fx[d].interval]
         /\ scale' = [d \in Dirs |-> fx[d].scale]
         /\ lastPositionRef' = cam.ref
         /\ cameraRotation' = cam.rotation
         /\ view' = IF Visible
                    THEN [d \in Dirs |-> [view[d] EXCEPT !.scale = fx[d].scale]]
                    ELSE view
  /\ pendingEffects' = {}
  /\ resetDue' = FALSE
  /\ lastEvent' = [Quiet("flush") EXCEPT !.due = resetDue, !.yaw = cameraRotation]
  /\ UNCHANGED << currentImageId, cache, shown, currentPanorama, footstepData,
                  hovered, deps, pointerOn, lastNav, trail, lastImageUrl >>

\* The user drags the view: OrbitControls turns the camera.
Rotate(y) ==
  /\ deps.sphere # UNMOUNTED
  /\ shown # CRASHED
  /\ y # cameraRotation
  /\ cameraRotation' = y
  /\ lastEvent' = Quiet("idle")
  /\ UNCHANGED << currentImageId, cache, shown, currentPanorama, footstepData, view,
                  hovered, scale, interval, deps, pendingEffects, lastPositionRef,
                  pointerOn, lastNav, trail, lastImageUrl, resetDue >>

Next ==
  \/ \E i \in 1..Len(panoramaImages) : JumpTo(i)
  \/ \E d \in Dirs : ClickFootstep(d)
  \/ \E d \in Dirs : PointerOver(d)
  \/ \E d \in Dirs : PointerOut(d)
  \/ \E d \in Dirs : Tick(d)
  \/ \E u \in Resources : LoadComplete(u)
  \/ FlushPassiveEffects
  \/ \E y \in 0..MaxYaw : Rotate(y)

Spec == Init /\ [][Next]_vars

(***************************************************************************)
(* The resolver on its own: applied to the registry's scenes and to scene  *)
(* records drawn from bounded sets of links and overrides.                 *)
(***************************************************************************)
Positions == {<<-50, -40, 20>>, <<0, -40, 50>>}
Rotations == {-50, 0, 75}

OptFootsteps ==
  {<< >>} \cup {<< [position |-> p, rotation |-> r] >> : p \in Positions, r \in Rotations}

Links == {NULL} \cup (1..MaxSceneId)

SceneRecords ==
  {panoramaImages[i] : i \in 1..Len(panoramaImages)} \cup
  [id : 1..MaxSceneId, name : {"Scene"}, url : {"/assets/scene.jpeg"},
   position : {<<0, 0, 0>>}, prev : Links, next : Links,
   prevFootstep : OptFootsteps, nextFootstep : OptFootsteps]

InitResolver == InitView /\ currentPanorama \in {<< s >> : s \in SceneRecords}

Rest == << currentImageId, cache, shown, currentPanorama, view, hovered, scale,
           interval, deps, pendingEffects, lastPositionRef, cameraRotation,
           pointerOn, lastEvent, lastNav, trail, lastImageUrl, resetDue >>

ResolvePrev ==
  /\ footstepData.prev = << >>
  /\ footstepData' = [footstepData EXCEPT !.prev = << getPrevFootstepData(currentPanorama) >>]
  /\ UNCHANGED Rest

ResolveNext ==
  /\ footstepData.next = << >>
  /\ footstepData' = [footstepData EXCEPT !.next = << getNextFootstepData(currentPanorama) >>]
  /\ UNCHANGED Rest

NextResolver == ResolvePrev \/ ResolveNext

SpecResolver == InitResolver /\ [][NextResolver]_vars

(***************************************************************************)
(* Properties.                                                             *)
(***************************************************************************)
LinkOf(scene, d) == IF d = "prev" THEN scene.prev ELSE scene.next

OverrideOf(scene, d) == IF d = "prev" THEN scene.prevFootstep ELSE scene.nextFootstep

DefaultPosition(d) == IF d = "prev" THEN PrevDefaultPosition ELSE NextDefaultPosition

DefaultRotation(d) == IF d = "prev" THEN PrevDefaultRotation ELSE NextDefaultRotation

\* C1: in every reachable state currentImageId is the id of a scene of the
\* registry, so the lookup of the current scene never fails.
C1_CurrentSceneInRegistry ==
  /\ find(currentImageId) # << >>
  /\ shown # CRASHED

C1_Witness ==
  /\ lastEvent.kind = "click"
  /\ lastEvent.navs = <<4>>
  /\ currentImageId = 4
  /\ lastEvent.before = 3

\* C2: currentImageId is the id of the most recently dispatched navigation,
\* whatever image loads are in flight or have completed; the event that
\* dispatched a navigation leaves currentImageId at the id it dispatched.
C2_LastNavigationWins ==
  /\ lastNav # NULL => currentImageId = lastNav
  /\ (lastEvent.kind \in {"click", "jump"} /\ lastEvent.navs # << >>)
        => currentImageId = lastEvent.navs[Len(lastEvent.navs)]

\* navigate(2), navigate(1), navigate(3) from scene 1: the images of scenes 1
\* and 2 are still loading when scene 3, requested last, is on screen.
C2_Witness ==
  /\ lastNav = 3
  /\ currentImageId = 3
  /\ cache[scene1.url] = "pending"
  /\ cache[scene2.url] = "pending"
  /\ shown = scene3.url

\* C3: a click on a disabled hotspot (targetId null) dispatches no navigation
\* and leaves currentImageId as it was.
C3_DisabledClickIsNoOp ==
  (lastEvent.kind = "click" /\ lastEvent.target = NULL)
     => /\ lastEvent.navs = << >>
        /\ currentImageId = lastEvent.before

C3_Witness ==
  /\ lastEvent.kind = "click"
  /\ lastEvent.dir = "next"
  /\ lastEvent.target = NULL
  /\ currentImageId = 4

\* C4: a click on an enabled hotspot calls navigate(targetId) exactly once,
\* targetId being the link of the scene current when the click is dispatched,
\* and the click is stopped at the hotspot's handler.
C4_EnabledClickNavigatesOnce ==
  (lastEvent.kind = "click" /\ lastEvent.target # NULL)
     => /\ find(lastEvent.before) # << >>
        /\ lastEvent.target = LinkOf(find(lastEvent.before)[1], lastEvent.dir)
        /\ lastEvent.navs = << lastEvent.target >>
        /\ lastEvent.stopped

C4_Witness ==
  /\ lastEvent.kind = "click"
  /\ lastEvent.dir = "prev"
  /\ lastEvent.before = 3
  /\ lastEvent.navs = <<2>>
  /\ lastEvent.stopped

\* C5: whenever a panorama is on screen (not the loading indicator) it is the
\* image of the current currentImageId, never that of a scene navigated away
\* from; and a load completing changes neither currentImageId nor the
\* navigation it came from.
C5_NoStaleImage ==
  /\ Visible => (find(currentImageId) # << >> /\ shown = find(currentImageId)[1].url)
  /\ lastEvent.kind = "load"
       => /\ currentImageId = lastEvent.before
          /\ lastNav # NULL => currentImageId = lastNav

\* Scene 1 was displayed, scene 2 was requested and then scene 3 before scene
\* 2's image arrived; scene 2's image has now arrived and is not shown.
C5_Witness ==
  /\ lastEvent.kind = "load"
  /\ deps.sphere = scene1.url
  /\ currentImageId = 3
  /\ cache[scene2.url] = "ready"
  /\ cache[scene3.url] = "pending"
  /\ cache[scene4.url] = "none"
  /\ shown = LOADING

\* C6: for every scene, the resolved Previous hotspot's targetId is the
\* scene's prev and the resolved Next hotspot's targetId is its next (null
\* when the link is null).
C6_ResolverKeepsLinks ==
  \A d \in Dirs :
    (footstepData[d] # << >> /\ currentPanorama # << >>)
       => footstepData[d][1].targetId = LinkOf(currentPanorama[1], d)

C6_Witness ==
  /\ footstepData.prev # << >>
  /\ footstepData.next # << >>
  /\ currentPanorama[1].prev = 3
  /\ currentPanorama[1].next = NULL
  /\ footstepData.prev[1].targetId = 3
  /\ footstepData.next[1].targetId = NULL

\* C7: for every scene record and direction, the resolver returns the
\* scene's override position and rotation when the scene has an override for
\* that direction, whatever the override's values (a rotation of 0 included),
\* and that direction's default position and rotation otherwise, the defaults
\* of the two directions being different.
C7_ResolverUsesOverride ==
  /\ DefaultPosition("prev") # DefaultPosition("next")
  /\ DefaultRotation("prev") # DefaultRotation("next")
  /\ \A d \in Dirs :
       (footstepData[d] # << >> /\ currentPanorama # << >>)
          => LET o == OverrideOf(currentPanorama[1], d)
                 r == footstepData[d][1]
             IN  IF o # << >>
                 THEN r.position = o[1].position /\ r.rotation = o[1].rotation
                 ELSE r.position = DefaultPosition(d) /\ r.rotation = DefaultRotation(d)

\* C8: the registry is a symmetric doubly-linked chain (S.next = T exactly
\* when T.prev = S), so a click on Next followed by a click on Previous
\* brings currentImageId back to the scene the first click started from.
ChainSymmetric ==
  \A i, j \in 1..Len(panoramaImages) :
    (panoramaImages[i].next = panoramaImages[j].id)
       <=> (panoramaImages[j].prev = panoramaImages[i].id)

C8_ChainRoundTrip ==
  /\ ChainSymmetric
  /\ trail.stage = 2 => currentImageId = trail.from

C8_Witness ==
  /\ trail.stage = 2
  /\ trail.from = 1
  /\ currentImageId = 1
  /\ lastEvent.kind = "click"
  /\ lastEvent.dir = "prev"

\* C9: a disabled hotspot on screen never shows hover feedback: no label, no
\* raised opacity, no enlarged scale.
C9_DisabledShowsNoHover ==
  \A d \in Dirs :
    (view[d].visible /\ view[d].disabled)
       => /\ view[d].label = << >>
          /\ view[d].opacity = 3
          /\ view[d].scale = 10

\* C10: the camera is reset to the neutral orientation by the effects of a
\* commit that changed the displayed image (the first display included), and
\* the effects of a commit that left the image unchanged leave the camera as
\* the user turned it.
C10_CameraResetOnImageChange ==
  /\ resetDue => pendingEffects # {}
  /\ lastEvent.kind = "flush"
       => IF lastEvent.due THEN cameraRotation = 0
          ELSE cameraRotation = lastEvent.yaw

C10_Witness ==
  /\ lastEvent.kind = "flush"
  /\ lastEvent.due
  /\ lastEvent.yaw # 0
  /\ cameraRotation = 0
  /\ lastImageUrl = scene2.url
  /\ lastPositionRef = scene2.url

====
